---- MODULE Spec2Model ----
(***************************************************************************)
(* CertiMintValidation (src/src/validate.ts): the verification of a seal   *)
(* against the Ethereum client and the Bitcoin block explorer.  One call   *)
(* of validateSeal, validateSealAndData or updateSeal runs at a time; each *)
(* action is one synchronous stretch of the call, up to and including the  *)
(* next awaited transaction lookup.  The configuration is assumed to name  *)
(* an `ethereum` section (this.config.ethereum is dereferenced unguarded). *)
(***************************************************************************)
EXTENDS Integers, Sequences, FiniteSets, TLC

VARIABLES
    seal,             \* the caller's seal object (the verifier holds a reference)
    given,            \* the seal as it was when the call started
    provider,         \* Ethereum client: normalized transaction id -> answer
    explorer,         \* Bitcoin explorer: transaction id -> HTTP response
    op,               \* the public method that is running
    data,             \* validateSealAndData: the data argument
    dataType,         \* validateSealAndData: the dataType argument
    pc,               \* position of the call
    hash,             \* validateSealAndData: result of hashForData
    protocolIdx,      \* validateAnchors: index into Object.keys(anchors)
    idx,              \* index of the entry the running loop is at
    isValid,          \* validateAnchors: isValid
    loopValid,        \* validate{Ethereum,Bitcoin}Anchor: isValid
    validAnchors,     \* validateSeal: validAnchors
    validSignatures,  \* validateSignatures: isValid, then validateSeal's validSignatures
    validSignInvites, \* validateSignInvites: isValid, then validateSeal's validSignInvites
    validationStatus, \* the value validateSeal returned
    result,           \* the value the public method returned
    error,            \* the error the public method raised
    lookups           \* the transaction lookups made by the call, in order

vars == <<seal, given, provider, explorer, op, data, dataType, pc, hash,
          protocolIdx, idx, isValid, loopValid, validAnchors, validSignatures,
          validSignInvites, validationStatus, result, error, lookups>>

----------------------------------------------------------------------------
(* Bounds of the model *)

\* entries per keyed map that is varied (Ethereum networks, signers, invite channels)
MaxEntries == 2
\* invitees under one sign-invite
MaxInvites == 2
\* outputs of a Bitcoin transaction
MaxOutputs == 3

\* IAnchors.bitcoin has the two keys mainnet and testnet
MaxBitcoinNetworks == 2

SeqsUpTo(S, n) == UNION {[1..k -> S] : k \in 0..n}

----------------------------------------------------------------------------
(* Enumerations *)

BITCOIN == "bitcoin"
ETHEREUM == "ethereum"

DataType_STRING == "STRING"
DataType_FILE == "FILE"
DataType_HASH == "HASH"

CONFIRMED == "confirmed"
FAILED == "failed"
PENDING == "pending"

\* a value that is not set (undefined)
Undefined == "undefined"
\* no value returned / no error raised
None == "none"

----------------------------------------------------------------------------
(* Strings that hold hex digests.  A string is its prefix ("" or "0x"),     *)
(* the letter case of its hex digits, and the digest the digits spell.      *)

Str(p, u, n) == [pfx |-> p, upper |-> u, d |-> n]

isHexPrefixed(valueToCheck) == valueToCheck.pfx = "0x"

addHexPrefix(fromValue) ==
    IF isHexPrefixed(fromValue) THEN fromValue ELSE [fromValue EXCEPT !.pfx = "0x"]

toLowerCase(s) == [s EXCEPT !.upper = FALSE]

\* the same hex digits written with upper-case letters
UpperCase(s) == [s EXCEPT !.upper = TRUE]

\* an injective pairing of digests: the hash of the concatenation of two byte strings
Hash(a, b) == ((a + b) * (a + b + 1)) \div 2 + b

\* the bytes of a text, as a number (injective in the text)
Bytes(s) == 4 * s.d + (IF s.upper THEN 2 ELSE 0) + (IF s.pfx = "0x" THEN 1 ELSE 0)

\* js-sha3: lower-case hex of the digest, no prefix
sha3_512(s) == Str("", FALSE, Hash(0, Bytes(s)))

\* merkle-tools validateProof: replay the proof from targetHash and compare with merkleRoot
RECURSIVE Replay(_, _)
Replay(proof, acc) ==
    IF proof = <<>> THEN acc
    ELSE LET step == Head(proof)
             next == IF step.side = "left"
                     THEN Str("", FALSE, Hash(step.value.d, acc.d))
                     ELSE Str("", FALSE, Hash(acc.d, step.value.d))
         IN Replay(Tail(proof), next)

validateProof(proof, targetHash, merkleRoot) == Replay(proof, targetHash) = merkleRoot

----------------------------------------------------------------------------
(* Sample values the seals and the chains are built from *)

DocText == Str("", FALSE, 7)
OtherText == Str("", FALSE, 8)
Sibling == Str("", FALSE, 3)
InviteeHash == Str("", FALSE, 4)
OtherRoot == Str("", FALSE, 5)
SignatureHash == Str("", FALSE, 6)

DataHash == sha3_512(DocText)
GoodProof == <<[side |-> "right", value |-> Sibling]>>
BadProof == <<[side |-> "left", value |-> Sibling]>>
MerkleRoot == Replay(GoodProof, DataHash)
InviteRoot == Replay(GoodProof, InviteeHash)

\* answers of the Ethereum client's getTransaction
NoTx == [found |-> FALSE, data |-> Str("", FALSE, 0)]
Tx(payload) == [found |-> TRUE, data |-> addHexPrefix(payload)]

\* responses of the Bitcoin explorer
NoData == [hasData |-> FALSE, data_hex |-> Str("", FALSE, 0)]
DataHex(payload) == [hasData |-> TRUE, data_hex |-> payload]
Response(status, outputs) == [status |-> status, outputs |-> outputs]

\* an Ethereum anchor with the answer the client gives for its transaction
EthereumCases ==
    { [nodeUrl |-> "infura", merkleRoot |-> MerkleRoot, proof |-> GoodProof, tx |-> Tx(MerkleRoot)],
      [nodeUrl |-> "mintnet", merkleRoot |-> MerkleRoot, proof |-> GoodProof, tx |-> NoTx],
      [nodeUrl |-> "infura", merkleRoot |-> MerkleRoot, proof |-> GoodProof, tx |-> NoTx],
      [nodeUrl |-> "infura", merkleRoot |-> MerkleRoot, proof |-> GoodProof, tx |-> Tx(OtherRoot)],
      [nodeUrl |-> "infura", merkleRoot |-> MerkleRoot, proof |-> BadProof, tx |-> Tx(MerkleRoot)],
      [nodeUrl |-> "infura", merkleRoot |-> MerkleRoot, proof |-> GoodProof, tx |-> Tx(UpperCase(MerkleRoot))],
      [nodeUrl |-> "infura", merkleRoot |-> addHexPrefix(MerkleRoot), proof |-> GoodProof, tx |-> Tx(MerkleRoot)] }

ValidEthereumCase == [nodeUrl |-> "infura", merkleRoot |-> MerkleRoot, proof |-> GoodProof, tx |-> Tx(MerkleRoot)]
MismatchEthereumCase == [nodeUrl |-> "infura", merkleRoot |-> MerkleRoot, proof |-> GoodProof, tx |-> Tx(OtherRoot)]

\* a Bitcoin anchor with the response the explorer gives for its transaction
BitcoinCases ==
    { [merkleRoot |-> MerkleRoot, proof |-> GoodProof, tx |-> Response(200, <<NoData, DataHex(MerkleRoot)>>)],
      [merkleRoot |-> MerkleRoot, proof |-> GoodProof, tx |-> Response(200, <<DataHex(OtherRoot)>>)],
      [merkleRoot |-> MerkleRoot, proof |-> BadProof, tx |-> Response(200, <<DataHex(MerkleRoot)>>)],
      [merkleRoot |-> MerkleRoot, proof |-> GoodProof, tx |-> Response(200, <<NoData>>)],
      [merkleRoot |-> MerkleRoot, proof |-> GoodProof, tx |-> Response(404, <<>>)],
      [merkleRoot |-> MerkleRoot, proof |-> GoodProof, tx |-> Response(429, <<>>)],
      [merkleRoot |-> addHexPrefix(MerkleRoot), proof |-> GoodProof, tx |-> Response(200, <<DataHex(MerkleRoot)>>)] }

\* a signature entry with the answer the client gives for its transaction
SignatureCases ==
    { [protocol |-> ETHEREUM, signature |-> SignatureHash, transactionStatus |-> st, tx |-> NoTx]
        : st \in {Undefined, PENDING, CONFIRMED, FAILED} }
    \cup { [protocol |-> ETHEREUM, signature |-> SignatureHash, transactionStatus |-> st, tx |-> Tx(SignatureHash)]
        : st \in {Undefined, PENDING} }
    \cup { [protocol |-> ETHEREUM, signature |-> SignatureHash, transactionStatus |-> Undefined, tx |-> Tx(OtherRoot)],
           [protocol |-> ETHEREUM, signature |-> SignatureHash, transactionStatus |-> Undefined, tx |-> Tx(UpperCase(SignatureHash))],
           [protocol |-> ETHEREUM, signature |-> addHexPrefix(SignatureHash), transactionStatus |-> Undefined, tx |-> Tx(SignatureHash)],
           [protocol |-> BITCOIN, signature |-> SignatureHash, transactionStatus |-> Undefined, tx |-> NoTx] }

Invitee(proof) == [proof |-> proof, hash |-> InviteeHash]

InviteCase(protocol, invites, st, tx) ==
    [protocol |-> protocol, merkleRoot |-> InviteRoot, invites |-> invites,
     transactionStatus |-> st, tx |-> tx]

\* a sign-invite entry with at most one invitee
SimpleInviteCases ==
    { InviteCase(ETHEREUM, inv, Undefined, Tx(InviteRoot))
        : inv \in {<<>>, <<Invitee(GoodProof)>>, <<Invitee(BadProof)>>} }
    \cup { InviteCase(ETHEREUM, <<Invitee(GoodProof)>>, st, NoTx)
        : st \in {Undefined, PENDING, CONFIRMED} }
    \cup { InviteCase(ETHEREUM, <<Invitee(GoodProof)>>, Undefined, Tx(OtherRoot)),
           InviteCase(ETHEREUM, <<Invitee(GoodProof)>>, Undefined, Tx(UpperCase(InviteRoot))),
           InviteCase(BITCOIN, <<>>, Undefined, NoTx) }

\* a sign-invite entry whose transaction is found, with every list of invitees
InviteeCases ==
    { InviteCase(ETHEREUM, inv, st, tx)
        : inv \in SeqsUpTo({Invitee(GoodProof), Invitee(BadProof)}, MaxInvites),
          st \in {Undefined, PENDING},
          tx \in {Tx(InviteRoot), Tx(OtherRoot)} }

Absent == [present |-> FALSE, entries |-> <<>>]
Present(entries) == [present |-> TRUE, entries |-> entries]

Scenario(protocols, eth, btc, sigs, invs) ==
    [protocols |-> protocols, ethereum |-> eth, bitcoin |-> btc,
     signatures |-> sigs, signinvites |-> invs]

\* the anchors are varied, no signatures and no sign-invites
AnchorScenarios ==
    { Scenario(<<ETHEREUM>>, e, <<>>, Absent, Absent)
        : e \in SeqsUpTo(EthereumCases, MaxEntries) }
    \cup { Scenario(<<BITCOIN>>, <<>>, b, Absent, Absent)
        : b \in SeqsUpTo(BitcoinCases, MaxBitcoinNetworks) }
    \cup { Scenario(p, e, b, Absent, Absent)
        : p \in {<<ETHEREUM, BITCOIN>>, <<BITCOIN, ETHEREUM>>},
          e \in SeqsUpTo(EthereumCases, MaxEntries),
          b \in SeqsUpTo(BitcoinCases, 1) }
    \cup { Scenario(p, e, b, Absent, Absent)
        : p \in {<<"litecoin">>, <<ETHEREUM, "litecoin">>, <<"litecoin", ETHEREUM>>,
                 <<BITCOIN, "litecoin">>, <<"litecoin", BITCOIN>>},
          e \in SeqsUpTo(EthereumCases, 1),
          b \in SeqsUpTo(BitcoinCases, 1) }

\* one Bitcoin anchor, every list of outputs in the explorer's answer
OutputScenarios ==
    { Scenario(<<BITCOIN>>, <<>>,
               <<[merkleRoot |-> MerkleRoot, proof |-> GoodProof, tx |-> Response(200, outputs)]>>,
               Absent, Absent)
        : outputs \in SeqsUpTo({NoData, DataHex(MerkleRoot), DataHex(OtherRoot)}, MaxOutputs) }

\* Object.keys lists the entries protocol by protocol
Grouped(s) ==
    \A i, j, k \in DOMAIN s :
        (i < j /\ j < k /\ s[i].protocol = s[k].protocol) => s[j].protocol = s[i].protocol

\* the signatures are varied, under one valid anchor
SignatureScenarios ==
    { Scenario(<<ETHEREUM>>, <<ValidEthereumCase>>, <<>>, Present(s), Absent)
        : s \in {x \in SeqsUpTo(SignatureCases, MaxEntries) : Grouped(x)} }

\* the sign-invites are varied, under one valid anchor
InviteScenarios ==
    { Scenario(<<ETHEREUM>>, <<ValidEthereumCase>>, <<>>, Absent, Present(s))
        : s \in {x \in SeqsUpTo(SimpleInviteCases, MaxEntries) : Grouped(x)}
               \cup {<<c>> : c \in InviteeCases} }

\* every combination of anchor validity and of the two reconcilers' results
\* a set that is not there, is empty, or holds entries under another protocol key only
NothingToReconcile(cases) ==
    {Absent, Present(<<>>)}
        \cup {Present(<<c>>) : c \in {x \in cases : x.protocol # ETHEREUM}}

CombinedScenarios ==
    { Scenario(<<ETHEREUM>>, <<a>>, <<>>, s, i)
        : a \in {ValidEthereumCase, MismatchEthereumCase},
          s \in NothingToReconcile(SignatureCases) \cup {Present(<<c>>) : c \in
                  {x \in SignatureCases : x.protocol = ETHEREUM /\ x.transactionStatus \in {Undefined, PENDING}}},
          i \in NothingToReconcile(SimpleInviteCases) \cup {Present(<<c>>) : c \in
                  {x \in SimpleInviteCases : x.protocol = ETHEREUM /\ x.transactionStatus \in {Undefined, PENDING}}} }

Scenarios == AnchorScenarios \cup OutputScenarios \cup SignatureScenarios \cup InviteScenarios \cup CombinedScenarios

----------------------------------------------------------------------------
(* The seal and the chains of a scenario.  The k-th entry of a section has  *)
(* the transaction id 10 * section + k, stored without the 0x prefix.       *)

Sections == [anchor |-> 1, bitcoin |-> 2, signature |-> 3, invite |-> 4]
AnchorSection == Sections.anchor
BitcoinSection == Sections.bitcoin
SignatureSection == Sections.signature
InviteSection == Sections.invite

TxId(section, k) == Str("", FALSE, 10 * section + k)

EthereumAnchor(c, k) ==
    [transactionId |-> TxId(AnchorSection, k), nodeUrl |-> c.nodeUrl,
     merkleRoot |-> c.merkleRoot, proof |-> c.proof, exists |-> Undefined]

BitcoinAnchor(c, k) ==
    [transactionId |-> TxId(BitcoinSection, k), nodeUrl |-> "blockcypher",
     merkleRoot |-> c.merkleRoot, proof |-> c.proof, exists |-> Undefined]

Signature(c, k) ==
    [protocol |-> c.protocol, transactionId |-> TxId(SignatureSection, k),
     signature |-> c.signature, transactionStatus |-> c.transactionStatus]

InviteAnchor(c, k) ==
    [protocol |-> c.protocol, transactionId |-> TxId(InviteSection, k),
     merkleRoot |-> c.merkleRoot, invites |-> c.invites,
     transactionStatus |-> c.transactionStatus, exists |-> Undefined]

AnchorsOf(sc) ==
    [p \in DOMAIN sc.protocols |->
        [protocol |-> sc.protocols[p],
         entries |->
            IF sc.protocols[p] = ETHEREUM
            THEN [k \in DOMAIN sc.ethereum |-> EthereumAnchor(sc.ethereum[k], k)]
            ELSE IF sc.protocols[p] = BITCOIN
            THEN [k \in DOMAIN sc.bitcoin |-> BitcoinAnchor(sc.bitcoin[k], k)]
            ELSE <<>>]]

SealOf(sc) ==
    [dataHash |-> DataHash,
     anchors |-> AnchorsOf(sc),
     signatures |->
        [present |-> sc.signatures.present,
         entries |-> [k \in DOMAIN sc.signatures.entries |-> Signature(sc.signatures.entries[k], k)]],
     signinvites |->
        [present |-> sc.signinvites.present,
         entries |-> [k \in DOMAIN sc.signinvites.entries |-> InviteAnchor(sc.signinvites.entries[k], k)]]]

\* the answer for transaction id t among the entries of one section
AnswerIn(cases, section, t) ==
    IF \E k \in DOMAIN cases : addHexPrefix(TxId(section, k)) = t
    THEN cases[CHOOSE k \in DOMAIN cases : addHexPrefix(TxId(section, k)) = t].tx
    ELSE NoTx

ProviderOf(sc) ==
    [t \in {addHexPrefix(TxId(s, k)) : s \in {AnchorSection, SignatureSection, InviteSection},
                                       k \in 1..MaxEntries} |->
        IF t.d \div 10 = AnchorSection THEN AnswerIn(sc.ethereum, AnchorSection, t)
        ELSE IF t.d \div 10 = SignatureSection
        THEN AnswerIn(sc.signatures.entries, SignatureSection, t)
        ELSE AnswerIn(sc.signinvites.entries, InviteSection, t)]

ExplorerOf(sc) ==
    [t \in {TxId(BitcoinSection, k) : k \in 1..MaxBitcoinNetworks} |->
        IF t.d - 10 * BitcoinSection \in DOMAIN sc.bitcoin
        THEN sc.bitcoin[t.d - 10 * BitcoinSection].tx
        ELSE Response(404, <<>>)]

\* the data arguments of validateSealAndData: a value of some shape, and its type tag
DataCalls ==
    { [data |-> [shape |-> "string", text |-> DocText], dataType |-> DataType_STRING],
      [data |-> [shape |-> "string", text |-> OtherText], dataType |-> DataType_STRING],
      [data |-> [shape |-> "Readable", text |-> DocText], dataType |-> DataType_FILE],
      [data |-> [shape |-> "string", text |-> UpperCase(DataHash)], dataType |-> DataType_HASH],
      [data |-> [shape |-> "string", text |-> DocText], dataType |-> DataType_FILE],
      [data |-> [shape |-> "Blob", text |-> DocText], dataType |-> DataType_STRING],
      [data |-> [shape |-> "string", text |-> DocText], dataType |-> "TEXT"] }

NoArgument == [shape |-> Undefined, text |-> Str("", FALSE, 0)]

----------------------------------------------------------------------------
(* Errors: the message, and the HTTP status of error.response (0: none) *)

NoError == [message |-> None, status |-> 0]
PlainError(message) == [message |-> message, status |-> 0]
AxiosError(status) == [message |-> "Request failed", status |-> status]

TooManyRequests == PlainError("Too many request to the blockcypher api")
MerkleRootUndefined == PlainError("Merkle root is undefined")
UnsupportedProtocol == PlainError("Unsupported protocol")

\* an entry of the log of lookups
EthereumLookup(t, tx) == [api |-> ETHEREUM, transactionId |-> t, found |-> tx.found, status |-> 0]
BitcoinLookup(t, response) ==
    [api |-> BITCOIN, transactionId |-> t, found |-> response.status = 200, status |-> response.status]

----------------------------------------------------------------------------
(* Pure parts of the methods *)

\* hashForData: the digest, or the error raised
hashForData(d, t) ==
    CASE t = DataType_FILE ->
            IF d.shape \in {"Readable", "Blob"}
            THEN [error |-> NoError, hex |-> sha3_512(d.text)]
            ELSE [error |-> PlainError("File is not Readable or Blob"), hex |-> d.text]
      [] t = DataType_STRING ->
            IF d.shape \in {"Readable", "Blob"}
            THEN [error |-> PlainError("Data cannot be Readable or Blob"), hex |-> d.text]
            ELSE [error |-> NoError, hex |-> sha3_512(d.text)]
      [] t = DataType_HASH ->
            IF d.shape \in {"Readable", "Blob"}
            THEN [error |-> PlainError("Data cannot be Readable or Blob"), hex |-> d.text]
            ELSE [error |-> NoError, hex |-> d.text]
      [] OTHER -> [error |-> PlainError("unknown type"), hex |-> d.text]

\* the digest comparison made on the strings as they are
SameHash_Exact(h, dataHash) == h = dataHash

\* validateSealAndData: the comparison of the digest with seal.dataHash
SameHash(h, dataHash) == toLowerCase(h) = toLowerCase(dataHash)

\* Combine with the PENDING test made before the anchors are looked at
Combine_PendingBeforeAnchors(anchorsValid, signatures, signInvites) ==
    IF signatures = FAILED \/ signInvites = FAILED THEN FAILED
    ELSE IF signatures = PENDING \/ signInvites = PENDING THEN PENDING
    ELSE IF ~anchorsValid THEN FAILED
    ELSE CONFIRMED

\* validateSeal: the combination of the three results
Combine(anchorsValid, signatures, signInvites) ==
    IF signatures = FAILED \/ signInvites = FAILED \/ ~anchorsValid THEN FAILED
    ELSE IF signatures = PENDING \/ signInvites = PENDING THEN PENDING
    ELSE CONFIRMED

\* validateEthereumAnchor: anchor.exists
EthereumExists(tx, anchor) == tx.data = addHexPrefix(anchor.merkleRoot)

\* validateBitcoinAnchor: the data_hex of the last output that has one
\* LastDataHex that keeps the first output with a data payload
RECURSIVE LastDataHex_First(_, _)
LastDataHex_First(outputs, merkleRoot) ==
    IF outputs = <<>> THEN merkleRoot
    ELSE LastDataHex_First(Tail(outputs),
                           IF Head(outputs).hasData /\ ~merkleRoot.hasData
                           THEN Head(outputs) ELSE merkleRoot)

RECURSIVE LastDataHex(_, _)
LastDataHex(outputs, merkleRoot) ==
    IF outputs = <<>> THEN merkleRoot
    ELSE LastDataHex(Tail(outputs),
                     IF Head(outputs).hasData THEN Head(outputs) ELSE merkleRoot)

\* validateBitcoinAnchor: the error the try block ends with (NoError: none)
BitcoinTryError(response) ==
    IF response.status # 200 THEN AxiosError(response.status)
    ELSE IF ~LastDataHex(response.outputs, NoData).hasData THEN MerkleRootUndefined
    ELSE NoError

\* BitcoinCatch that rethrows whatever it caught
BitcoinCatch_Rethrow(caught) == caught

\* validateBitcoinAnchor: the catch block
BitcoinCatch(caught) ==
    IF caught.status = 429 THEN TooManyRequests ELSE caught

\* validateBitcoinAnchor: anchor.exists
BitcoinExists(response, anchor) ==
    LastDataHex(response.outputs, NoData).data_hex = anchor.merkleRoot

\* SignatureStep in which a cached CONFIRMED stands in for a transaction that is not found
SignatureStep_TrustCache(status, tx, signature) ==
    IF tx.found
    THEN IF tx.data = addHexPrefix(signature.signature)
         THEN [returned |-> FALSE, status |-> IF status = CONFIRMED THEN CONFIRMED ELSE status]
         ELSE [returned |-> TRUE, status |-> FAILED]
    ELSE IF signature.transactionStatus = PENDING
         THEN [returned |-> FALSE, status |-> PENDING]
         ELSE IF signature.transactionStatus = CONFIRMED
         THEN [returned |-> FALSE, status |-> status]
         ELSE [returned |-> TRUE, status |-> FAILED]

\* SignatureStep in which a matching entry sets the aggregate to CONFIRMED
SignatureStep_MatchResets(status, tx, signature) ==
    IF tx.found
    THEN IF tx.data = addHexPrefix(signature.signature)
         THEN [returned |-> FALSE, status |-> CONFIRMED]
         ELSE [returned |-> TRUE, status |-> FAILED]
    ELSE IF signature.transactionStatus # Undefined /\ signature.transactionStatus = PENDING
         THEN [returned |-> FALSE, status |-> PENDING]
         ELSE [returned |-> TRUE, status |-> FAILED]

\* SignatureStep in which a mismatch is noted and the loop goes on
SignatureStep_GoesOn(status, tx, signature) ==
    IF tx.found
    THEN IF tx.data = addHexPrefix(signature.signature)
         THEN [returned |-> FALSE, status |-> IF status = CONFIRMED THEN CONFIRMED ELSE status]
         ELSE [returned |-> FALSE, status |-> FAILED]
    ELSE IF signature.transactionStatus # Undefined /\ signature.transactionStatus = PENDING
         THEN [returned |-> FALSE, status |-> PENDING]
         ELSE [returned |-> TRUE, status |-> FAILED]

\* validateSignatures: one entry.  returned: the method returns status at once
SignatureStep(status, tx, signature) ==
    IF tx.found
    THEN IF tx.data = addHexPrefix(signature.signature)
         THEN [returned |-> FALSE, status |-> IF status = CONFIRMED THEN CONFIRMED ELSE status]
         ELSE [returned |-> TRUE, status |-> FAILED]
    ELSE IF signature.transactionStatus # Undefined /\ signature.transactionStatus = PENDING
         THEN [returned |-> FALSE, status |-> PENDING]
         ELSE [returned |-> TRUE, status |-> FAILED]

\* validateSignInvites: validProof after the loop over the invitees
RECURSIVE InvitesValidProof(_, _, _)
InvitesValidProof(invites, merkleRoot, validProof) ==
    IF invites = <<>> THEN validProof
    ELSE InvitesValidProof(Tail(invites), merkleRoot,
                           validateProof(Head(invites).proof, Head(invites).hash, merkleRoot))

\* validateSignInvites: signInvite.exists
InviteExists(tx, signInvite) == tx.data = addHexPrefix(signInvite.merkleRoot)

\* validateSignInvites: one entry
SignInviteStep(status, tx, signInvite) ==
    IF tx.found
    THEN IF ~InvitesValidProof(signInvite.invites, signInvite.merkleRoot, TRUE)
            \/ ~InviteExists(tx, signInvite)
         THEN [returned |-> TRUE, status |-> FAILED]
         ELSE [returned |-> FALSE, status |-> IF status = CONFIRMED THEN CONFIRMED ELSE status]
    ELSE IF signInvite.transactionStatus # Undefined /\ signInvite.transactionStatus = PENDING
         THEN [returned |-> FALSE, status |-> PENDING]
         ELSE [returned |-> TRUE, status |-> FAILED]

\* the reconcilers that look at entries under every protocol key
Reconciled_EveryProtocol(protocol) == TRUE

\* validateSignatures, validateSignInvites, resolveSignatures, resolveSignInvites:
\* only the entries under the ETHEREUM key are looked at
Reconciled(protocol) == protocol = ETHEREUM

\* resolveSignatures that marks every Ethereum entry
SignatureResolved_Always(tx, signature) == TRUE

\* resolveSignInvites that marks every Ethereum entry
SignInviteResolved_Always(tx, signInvite) == TRUE

\* resolveSignatures: the entry is marked
SignatureResolved(tx, signature) ==
    tx.found /\ tx.data = addHexPrefix(signature.signature)

\* resolveSignInvites: the entry is marked
SignInviteResolved(tx, signInvite) ==
    tx.found /\ tx.data = addHexPrefix(signInvite.merkleRoot)

\* the writes to the caller's seal
WriteAnchorExists(s, p, k, v) ==
    [s EXCEPT !.anchors[p].entries[k].exists = IF v THEN "true" ELSE "false"]

\* WriteInviteExists that caches the comparison in transactionStatus as well
WriteInviteExists_AndStatus(s, k, v) ==
    [s EXCEPT !.signinvites.entries[k].exists = IF v THEN "true" ELSE "false",
              !.signinvites.entries[k].transactionStatus = IF v THEN CONFIRMED ELSE FAILED]

WriteInviteExists(s, k, v) ==
    [s EXCEPT !.signinvites.entries[k].exists = IF v THEN "true" ELSE "false"]

WriteSignatureStatus(s, k) ==
    [s EXCEPT !.signatures.entries[k].transactionStatus = CONFIRMED]

WriteInviteStatus(s, k) ==
    [s EXCEPT !.signinvites.entries[k].transactionStatus = CONFIRMED]

----------------------------------------------------------------------------
(* The state after construction: a seal in the caller's hands, the chains,  *)
(* and no call running.                                                     *)

Init ==
    /\ \E sc \in Scenarios :
          /\ seal = SealOf(sc)
          /\ provider = ProviderOf(sc)
          /\ explorer = ExplorerOf(sc)
    /\ given = seal
    /\ op = None
    /\ data = NoArgument
    /\ dataType = None
    /\ pc = "idle"
    /\ hash = Str("", FALSE, 0)
    /\ protocolIdx = 1
    /\ idx = 1
    /\ isValid = TRUE
    /\ loopValid = TRUE
    /\ validAnchors = TRUE
    /\ validSignatures = CONFIRMED
    /\ validSignInvites = CONFIRMED
    /\ validationStatus = None
    /\ result = None
    /\ error = NoError
    /\ lookups = <<>>

chain == <<provider, explorer>>
args == <<op, data, dataType, hash>>
anchorLocals == <<protocolIdx, isValid, loopValid, validAnchors>>
outcome == <<validationStatus, result, error>>

\* the call raises e
Throw(e) ==
    /\ pc' = "done"
    /\ error' = e
    /\ UNCHANGED <<validationStatus, result>>

----------------------------------------------------------------------------
(* validateSeal and validateSealAndData *)

\* validateSeal is called
validateSeal ==
    /\ pc = "idle"
    /\ op' = "validateSeal"
    /\ pc' = "validateAnchors"
    /\ UNCHANGED <<seal, given, chain, data, dataType, hash, anchorLocals, idx,
                   validSignatures, validSignInvites, outcome, lookups>>

\* validateSealAndData is called: hashForData, then validateSeal
validateSealAndData ==
    /\ pc = "idle"
    /\ \E c \in DataCalls :
          LET h == hashForData(c.data, c.dataType) IN
          /\ op' = "validateSealAndData"
          /\ data' = c.data
          /\ dataType' = c.dataType
          /\ IF h.error # NoError
             THEN /\ Throw(h.error)
                  /\ UNCHANGED hash
             ELSE /\ hash' = h.hex
                  /\ pc' = "validateAnchors"
                  /\ UNCHANGED outcome
    /\ UNCHANGED <<seal, given, chain, anchorLocals, idx, validSignatures,
                   validSignInvites, lookups>>

\* validateAnchors: the loop over Object.keys(anchors), up to the next protocol validator
validateAnchors ==
    /\ pc = "validateAnchors"
    /\ IF protocolIdx > Len(seal.anchors)
       THEN /\ validAnchors' = isValid
            /\ pc' = "validateSignatures"
            /\ UNCHANGED <<protocolIdx, isValid, loopValid, outcome>>
       ELSE LET protocol == seal.anchors[protocolIdx].protocol IN
            IF protocol \in {ETHEREUM, BITCOIN}
            THEN /\ IF isValid
                    THEN /\ pc' = IF protocol = ETHEREUM THEN "validateEthereumAnchor"
                                                         ELSE "validateBitcoinAnchor"
                         /\ loopValid' = TRUE
                         /\ UNCHANGED protocolIdx
                    ELSE /\ protocolIdx' = protocolIdx + 1
                         /\ UNCHANGED <<pc, loopValid>>
                 /\ UNCHANGED <<isValid, validAnchors, outcome>>
            ELSE /\ Throw(UnsupportedProtocol)
                 /\ UNCHANGED anchorLocals
    /\ idx' = 1
    /\ UNCHANGED <<seal, given, chain, args, validSignatures, validSignInvites, lookups>>

\* the protocol validator returns v to validateAnchors
ReturnToValidateAnchors(v) ==
    /\ isValid' = (isValid /\ v)
    /\ protocolIdx' = protocolIdx + 1
    /\ pc' = "validateAnchors"
    /\ UNCHANGED <<idx, loopValid, validAnchors>>

\* validateEthereumAnchor: one turn of the loop over the networks
validateEthereumAnchor ==
    /\ pc = "validateEthereumAnchor"
    /\ LET entries == seal.anchors[protocolIdx].entries IN
       IF idx > Len(entries)
       THEN /\ ReturnToValidateAnchors(loopValid)
            /\ UNCHANGED <<seal, lookups>>
       ELSE LET anchor == entries[idx]
                t == addHexPrefix(anchor.transactionId)
                tx == provider[t]
            IN
            IF anchor.nodeUrl = "mintnet"
            THEN /\ ReturnToValidateAnchors(TRUE)
                 /\ UNCHANGED <<seal, lookups>>
            ELSE /\ lookups' = Append(lookups, EthereumLookup(t, tx))
                 /\ IF ~tx.found
                    THEN /\ ReturnToValidateAnchors(FALSE)
                         /\ UNCHANGED seal
                    ELSE /\ seal' = WriteAnchorExists(seal, protocolIdx, idx, EthereumExists(tx, anchor))
                         /\ loopValid' = (loopValid /\ EthereumExists(tx, anchor)
                                            /\ validateProof(anchor.proof, seal.dataHash, anchor.merkleRoot))
                         /\ idx' = idx + 1
                         /\ UNCHANGED <<pc, protocolIdx, isValid, validAnchors>>
    /\ UNCHANGED <<given, chain, args, validSignatures, validSignInvites, outcome>>

\* validateBitcoinAnchor: one turn of the loop over the networks
validateBitcoinAnchor ==
    /\ pc = "validateBitcoinAnchor"
    /\ LET entries == seal.anchors[protocolIdx].entries IN
       IF idx > Len(entries)
       THEN /\ ReturnToValidateAnchors(loopValid)
            /\ UNCHANGED <<seal, lookups, outcome>>
       ELSE LET anchor == entries[idx]
                response == explorer[anchor.transactionId]
                caught == BitcoinTryError(response)
            IN
            /\ lookups' = Append(lookups, BitcoinLookup(anchor.transactionId, response))
            /\ IF caught # NoError
               THEN /\ Throw(BitcoinCatch(caught))
                    /\ UNCHANGED <<seal, anchorLocals, idx>>
               ELSE /\ seal' = WriteAnchorExists(seal, protocolIdx, idx, BitcoinExists(response, anchor))
                    /\ loopValid' = (loopValid /\ BitcoinExists(response, anchor)
                                       /\ validateProof(anchor.proof, seal.dataHash, anchor.merkleRoot))
                    /\ idx' = idx + 1
                    /\ UNCHANGED <<pc, protocolIdx, isValid, validAnchors, outcome>>
    /\ UNCHANGED <<given, chain, args, validSignatures, validSignInvites>>

\* validateSeal, validateSignatures: one turn of the loop over the signatures
validateSignatures ==
    /\ pc = "validateSignatures"
    /\ LET entries == seal.signatures.entries IN
       IF ~seal.signatures.present \/ idx > Len(entries)
       THEN /\ pc' = "validateSignInvites"
            /\ idx' = 1
            /\ UNCHANGED <<validSignatures, lookups>>
       ELSE LET signature == entries[idx]
                t == addHexPrefix(signature.transactionId)
                tx == provider[t]
                step == SignatureStep(validSignatures, tx, signature)
            IN
            IF ~Reconciled(signature.protocol)
            THEN /\ idx' = idx + 1
                 /\ UNCHANGED <<pc, validSignatures, lookups>>
            ELSE /\ lookups' = Append(lookups, EthereumLookup(t, tx))
                 /\ validSignatures' = step.status
                 /\ IF step.returned
                    THEN pc' = "validateSignInvites" /\ idx' = 1
                    ELSE pc' = pc /\ idx' = idx + 1
    /\ UNCHANGED <<seal, given, chain, args, anchorLocals, validSignInvites, outcome>>

\* validateSeal, validateSignInvites: one turn of the loop over the sign-invites
validateSignInvites ==
    /\ pc = "validateSignInvites"
    /\ LET entries == seal.signinvites.entries IN
       IF ~seal.signinvites.present \/ idx > Len(entries)
       THEN /\ pc' = "returnValidateSeal"
            /\ idx' = 1
            /\ UNCHANGED <<seal, validSignInvites, lookups>>
       ELSE LET signInvite == entries[idx]
                t == addHexPrefix(signInvite.transactionId)
                tx == provider[t]
                step == SignInviteStep(validSignInvites, tx, signInvite)
            IN
            IF ~Reconciled(signInvite.protocol)
            THEN /\ idx' = idx + 1
                 /\ UNCHANGED <<seal, pc, validSignInvites, lookups>>
            ELSE /\ lookups' = Append(lookups, EthereumLookup(t, tx))
                 /\ seal' = IF tx.found
                            THEN WriteInviteExists(seal, idx, InviteExists(tx, signInvite))
                            ELSE seal
                 /\ validSignInvites' = step.status
                 /\ IF step.returned
                    THEN pc' = "returnValidateSeal" /\ idx' = 1
                    ELSE pc' = pc /\ idx' = idx + 1
    /\ UNCHANGED <<given, chain, args, anchorLocals, validSignatures, outcome>>

\* validateSeal returns; validateSealAndData compares the digests and returns
returnValidateSeal ==
    /\ pc = "returnValidateSeal"
    /\ LET status == Combine(validAnchors, validSignatures, validSignInvites) IN
       /\ validationStatus' = status
       /\ result' = IF op = "validateSeal" THEN status
                    ELSE IF SameHash(hash, seal.dataHash) THEN status ELSE FAILED
    /\ pc' = "done"
    /\ UNCHANGED <<seal, given, chain, args, anchorLocals, idx, validSignatures,
                   validSignInvites, error, lookups>>

----------------------------------------------------------------------------
(* updateSeal *)

\* updateSeal is called
updateSeal ==
    /\ pc = "idle"
    /\ op' = "updateSeal"
    /\ pc' = "resolveSignatures"
    /\ UNCHANGED <<seal, given, chain, data, dataType, hash, anchorLocals, idx,
                   validSignatures, validSignInvites, outcome, lookups>>

\* resolveSignatures: one turn of the loop over the signatures
resolveSignatures ==
    /\ pc = "resolveSignatures"
    /\ LET entries == seal.signatures.entries IN
       IF ~seal.signatures.present \/ idx > Len(entries)
       THEN /\ pc' = "resolveSignInvites"
            /\ idx' = 1
            /\ UNCHANGED <<seal, lookups>>
       ELSE LET signature == entries[idx]
                t == addHexPrefix(signature.transactionId)
                tx == provider[t]
            IN
            /\ idx' = idx + 1
            /\ UNCHANGED pc
            /\ IF ~Reconciled(signature.protocol)
               THEN UNCHANGED <<seal, lookups>>
               ELSE /\ lookups' = Append(lookups, EthereumLookup(t, tx))
                    /\ seal' = IF SignatureResolved(tx, signature)
                               THEN WriteSignatureStatus(seal, idx)
                               ELSE seal
    /\ UNCHANGED <<given, chain, args, anchorLocals, validSignatures, validSignInvites, outcome>>

\* resolveSignInvites: one turn of the loop over the sign-invites; updateSeal returns the seal
resolveSignInvites ==
    /\ pc = "resolveSignInvites"
    /\ LET entries == seal.signinvites.entries IN
       IF ~seal.signinvites.present \/ idx > Len(entries)
       THEN /\ pc' = "done"
            /\ result' = "seal"
            /\ UNCHANGED <<seal, idx, lookups>>
       ELSE LET signInvite == entries[idx]
                t == addHexPrefix(signInvite.transactionId)
                tx == provider[t]
            IN
            /\ idx' = idx + 1
            /\ UNCHANGED <<pc, result>>
            /\ IF ~Reconciled(signInvite.protocol)
               THEN UNCHANGED <<seal, lookups>>
               ELSE /\ lookups' = Append(lookups, EthereumLookup(t, tx))
                    /\ seal' = IF SignInviteResolved(tx, signInvite)
                               THEN WriteInviteStatus(seal, idx)
                               ELSE seal
    /\ UNCHANGED <<given, chain, args, anchorLocals, validSignatures, validSignInvites,
                   validationStatus, error>>

----------------------------------------------------------------------------

Next ==
    \/ validateSeal
    \/ validateSealAndData
    \/ validateAnchors
    \/ validateEthereumAnchor
    \/ validateBitcoinAnchor
    \/ validateSignatures
    \/ validateSignInvites
    \/ returnValidateSeal
    \/ updateSeal
    \/ resolveSignatures
    \/ resolveSignInvites

Spec == Init /\ [][Next]_vars

----------------------------------------------------------------------------
(* What the properties speak of *)

Validating == op \in {"validateSeal", "validateSealAndData"}

\* validateSeal has returned a verdict (to the caller or to validateSealAndData)
Returned == Validating /\ pc = "done" /\ error = NoError

\* the answer of the Ethereum client for an entry's transaction
TxOf(entry) == provider[addHexPrefix(entry.transactionId)]

EthereumAnchors ==
    UNION { {given.anchors[p].entries[k] : k \in DOMAIN given.anchors[p].entries}
            : p \in {q \in DOMAIN given.anchors : given.anchors[q].protocol = ETHEREUM} }

EthereumSignatures ==
    {given.signatures.entries[k] : k \in {j \in DOMAIN given.signatures.entries :
                                            given.signatures.entries[j].protocol = ETHEREUM}}

EthereumSignInvites ==
    {given.signinvites.entries[k] : k \in {j \in DOMAIN given.signinvites.entries :
                                             given.signinvites.entries[j].protocol = ETHEREUM}}

\* the status order: FAILED over PENDING over CONFIRMED
Rank(status) == CASE status = FAILED -> 2 [] status = PENDING -> 1 [] OTHER -> 0

Worst(statuses) ==
    IF statuses = {} THEN CONFIRMED
    ELSE CHOOSE x \in statuses : \A y \in statuses : Rank(y) <= Rank(x)

----------------------------------------------------------------------------
(* validateSeal and updateSeal as functions of the seal: what one call, run  *)
(* alone against the chains as they stand, returns or raises.                *)

\* validateEthereumAnchor from entry k on
RECURSIVE validateEthereumAnchorFrom(_, _, _, _)
validateEthereumAnchorFrom(entries, k, valid, dataHash) ==
    IF k > Len(entries) THEN valid
    ELSE LET anchor == entries[k]
             tx == TxOf(anchor)
         IN
         IF anchor.nodeUrl = "mintnet" THEN TRUE
         ELSE IF ~tx.found THEN FALSE
         ELSE validateEthereumAnchorFrom(entries, k + 1,
                  valid /\ EthereumExists(tx, anchor)
                        /\ validateProof(anchor.proof, dataHash, anchor.merkleRoot),
                  dataHash)

\* validateBitcoinAnchor from entry k on
RECURSIVE validateBitcoinAnchorFrom(_, _, _, _)
validateBitcoinAnchorFrom(entries, k, valid, dataHash) ==
    IF k > Len(entries) THEN [error |-> NoError, valid |-> valid]
    ELSE LET anchor == entries[k]
             response == explorer[anchor.transactionId]
             caught == BitcoinTryError(response)
         IN
         IF caught # NoError THEN [error |-> BitcoinCatch(caught), valid |-> valid]
         ELSE validateBitcoinAnchorFrom(entries, k + 1,
                  valid /\ BitcoinExists(response, anchor)
                        /\ validateProof(anchor.proof, dataHash, anchor.merkleRoot),
                  dataHash)

\* validateAnchors from protocol key p on
RECURSIVE validateAnchorsFrom(_, _, _, _)
validateAnchorsFrom(anchors, p, valid, dataHash) ==
    IF p > Len(anchors) THEN [error |-> NoError, valid |-> valid]
    ELSE LET entries == anchors[p].entries
             bitcoin == validateBitcoinAnchorFrom(entries, 1, TRUE, dataHash)
         IN
         CASE anchors[p].protocol = ETHEREUM ->
                 validateAnchorsFrom(anchors, p + 1,
                     valid /\ validateEthereumAnchorFrom(entries, 1, TRUE, dataHash), dataHash)
           [] anchors[p].protocol = BITCOIN ->
                 IF ~valid THEN validateAnchorsFrom(anchors, p + 1, FALSE, dataHash)
                 ELSE IF bitcoin.error # NoError THEN bitcoin
                 ELSE validateAnchorsFrom(anchors, p + 1, bitcoin.valid, dataHash)
           [] OTHER -> [error |-> UnsupportedProtocol, valid |-> valid]

\* validateSignatures from entry k on
RECURSIVE validateSignaturesFrom(_, _, _)
validateSignaturesFrom(entries, k, status) ==
    IF k > Len(entries) THEN status
    ELSE LET step == SignatureStep(status, TxOf(entries[k]), entries[k]) IN
         IF ~Reconciled(entries[k].protocol) THEN validateSignaturesFrom(entries, k + 1, status)
         ELSE IF step.returned THEN step.status
         ELSE validateSignaturesFrom(entries, k + 1, step.status)

\* validateSignInvites from entry k on
RECURSIVE validateSignInvitesFrom(_, _, _)
validateSignInvitesFrom(entries, k, status) ==
    IF k > Len(entries) THEN status
    ELSE LET step == SignInviteStep(status, TxOf(entries[k]), entries[k]) IN
         IF ~Reconciled(entries[k].protocol) THEN validateSignInvitesFrom(entries, k + 1, status)
         ELSE IF step.returned THEN step.status
         ELSE validateSignInvitesFrom(entries, k + 1, step.status)

\* validateSeal(s): the error raised, or the status returned
validateSealOf(s) ==
    LET anchors == validateAnchorsFrom(s.anchors, 1, TRUE, s.dataHash) IN
    IF anchors.error # NoError THEN [error |-> anchors.error, status |-> None]
    ELSE [error |-> NoError,
          status |-> Combine(anchors.valid,
                             validateSignaturesFrom(s.signatures.entries, 1, CONFIRMED),
                             validateSignInvitesFrom(s.signinvites.entries, 1, CONFIRMED))]

\* updateSeal(s): the seal with the statuses resolveSignatures and resolveSignInvites set
updateSealOf(s) ==
    [s EXCEPT
        !.signatures.entries = [k \in DOMAIN s.signatures.entries |->
            LET signature == s.signatures.entries[k] IN
            IF Reconciled(signature.protocol) /\ SignatureResolved(TxOf(signature), signature)
            THEN [signature EXCEPT !.transactionStatus = CONFIRMED] ELSE signature],
        !.signinvites.entries = [k \in DOMAIN s.signinvites.entries |->
            LET signInvite == s.signinvites.entries[k] IN
            IF Reconciled(signInvite.protocol) /\ SignInviteResolved(TxOf(signInvite), signInvite)
            THEN [signInvite EXCEPT !.transactionStatus = CONFIRMED] ELSE signInvite]]

\* what the call made in this run has returned or raised is what the call returns alone
AsAlone ==
    /\ (op = "validateSeal" /\ pc = "done") =>
          [error |-> error, status |-> validationStatus] = validateSealOf(given)
    /\ (op = "validateSealAndData" /\ pc = "done"
          /\ hashForData(data, dataType).error = NoError) =>
          [error |-> error, status |-> validationStatus] = validateSealOf(given)
    /\ (op = "updateSeal" /\ pc = "done") => seal = updateSealOf(given)

----------------------------------------------------------------------------
\* C1: whatever the anchor validity and the two reconcilers' results are, validateSeal
\* returns the worst of them (anchors invalid counting as FAILED): FAILED over PENDING
\* over CONFIRMED; with invalid anchors it returns neither PENDING nor CONFIRMED.
C1_Combination ==
    Returned =>
        /\ validationStatus =
              Worst({IF validAnchors THEN CONFIRMED ELSE FAILED, validSignatures, validSignInvites})
        /\ (~validAnchors => validationStatus = FAILED)
        /\ (op = "validateSeal" => result = validationStatus)

C1_Witness ==
    /\ Returned /\ op = "validateSeal"
    /\ ~validAnchors /\ validSignatures = PENDING /\ validSignInvites = CONFIRMED
    /\ result = FAILED

----------------------------------------------------------------------------
\* the claim's validity of an Ethereum network entry
C2_EntryValid(anchor) ==
    /\ TxOf(anchor).found
    /\ TxOf(anchor).data = addHexPrefix(anchor.merkleRoot)
    /\ validateProof(anchor.proof, given.dataHash, anchor.merkleRoot)

\* C2: validateSeal returns neither CONFIRMED nor PENDING for a seal that has, under
\* ethereum, an entry of a live network that is not valid, whatever the other entries
\* are (a retired-network entry among them included).
C2_InvalidEntryFails ==
    (Returned /\ \E a \in EthereumAnchors : a.nodeUrl # "mintnet" /\ ~C2_EntryValid(a))
        => validationStatus = FAILED

----------------------------------------------------------------------------
\* C3: when validateSealAndData is given data whose digest differs from seal.dataHash,
\* no transaction lookup is made during the call, and the call returns FAILED.
C3_MismatchMakesNoLookup ==
    (/\ op = "validateSealAndData"
     /\ hashForData(data, dataType).error = NoError
     /\ toLowerCase(hashForData(data, dataType).hex) # toLowerCase(given.dataHash))
        => /\ lookups = <<>>
           /\ (pc = "done" /\ error = NoError => result = FAILED)

----------------------------------------------------------------------------
\* C4: when some Ethereum sign-invite entry has a found transaction and an invitee whose
\* {proof, hash} does not verify against the entry's merkleRoot, at whatever position in
\* the invites map, validateSignInvites returns FAILED and so does validateSeal.
C4_EveryInviteeMustVerify ==
    (Returned /\ \E e \in EthereumSignInvites :
                    /\ TxOf(e).found
                    /\ \E j \in DOMAIN e.invites :
                          ~validateProof(e.invites[j].proof, e.invites[j].hash, e.merkleRoot))
        => validSignInvites = FAILED /\ validationStatus = FAILED

----------------------------------------------------------------------------
\* C5: validateSeal returns FAILED whenever some Ethereum signature or sign-invite entry
\* has a transaction that is not found and a cached transactionStatus other than PENDING;
\* a reconciler reports PENDING only if some entry of its has a transaction that is not
\* found and a cached PENDING.
C5_MissingTransaction ==
    Returned =>
        /\ (\E e \in EthereumSignatures \cup EthereumSignInvites :
                ~TxOf(e).found /\ e.transactionStatus # PENDING)
              => validationStatus = FAILED
        /\ validSignatures = PENDING
              => \E e \in EthereumSignatures : ~TxOf(e).found /\ e.transactionStatus = PENDING
        /\ validSignInvites = PENDING
              => \E e \in EthereumSignInvites : ~TxOf(e).found /\ e.transactionStatus = PENDING

C5_Witness ==
    /\ Returned
    /\ \E e \in EthereumSignatures : ~TxOf(e).found /\ e.transactionStatus = CONFIRMED
    /\ \A e \in EthereumSignatures : TxOf(e).found => TxOf(e).data = addHexPrefix(e.signature)
    /\ validAnchors
    /\ validationStatus = FAILED

----------------------------------------------------------------------------
\* the claim's status of one signature entry
C6_EntryStatus(e) ==
    IF TxOf(e).found
    THEN IF TxOf(e).data = addHexPrefix(e.signature) THEN CONFIRMED ELSE FAILED
    ELSE IF e.transactionStatus = PENDING THEN PENDING ELSE FAILED

\* C6: once validateSignatures has returned, its result is FAILED iff some Ethereum entry
\* is FAILED, otherwise PENDING iff some entry is PENDING, otherwise CONFIRMED, whatever
\* the order of the entries.
C6_SignatureAggregate ==
    (/\ Validating
     /\ given.signatures.present
     /\ pc \in {"validateSignInvites", "returnValidateSeal"} \/ (pc = "done" /\ error = NoError))
        => validSignatures = Worst({C6_EntryStatus(e) : e \in EthereumSignatures})

C6_Witness ==
    /\ Returned
    /\ Len(given.signatures.entries) = 2
    /\ C6_EntryStatus(given.signatures.entries[1]) = PENDING
    /\ C6_EntryStatus(given.signatures.entries[2]) = CONFIRMED
    /\ validSignatures = PENDING

----------------------------------------------------------------------------
\* C7: updateSeal changes an entry's transactionStatus only to CONFIRMED, and only for an
\* Ethereum entry whose transaction is found and matches: for a signature the payload
\* equals the normalized signature; for a sign-invite the payload equals the normalized
\* merkleRoot and every nested invitee proof verifies.
C7_OnlyConfirmedFacts ==
    op = "updateSeal" =>
        /\ \A k \in DOMAIN given.signatures.entries :
              LET old == given.signatures.entries[k]
                  new == seal.signatures.entries[k]
              IN new.transactionStatus # old.transactionStatus =>
                    /\ new.transactionStatus = CONFIRMED
                    /\ old.protocol = ETHEREUM
                    /\ TxOf(old).found
                    /\ TxOf(old).data = addHexPrefix(old.signature)
        /\ \A k \in DOMAIN given.signinvites.entries :
              LET old == given.signinvites.entries[k]
                  new == seal.signinvites.entries[k]
              IN new.transactionStatus # old.transactionStatus =>
                    /\ new.transactionStatus = CONFIRMED
                    /\ old.protocol = ETHEREUM
                    /\ TxOf(old).found
                    /\ TxOf(old).data = addHexPrefix(old.merkleRoot)
                    /\ \A j \in DOMAIN old.invites :
                          validateProof(old.invites[j].proof, old.invites[j].hash, old.merkleRoot)

----------------------------------------------------------------------------
WithoutExists(s) ==
    [s EXCEPT
        !.anchors = [p \in DOMAIN s.anchors |->
            [s.anchors[p] EXCEPT !.entries =
                [k \in DOMAIN s.anchors[p].entries |->
                    [s.anchors[p].entries[k] EXCEPT !.exists = Undefined]]]],
        !.signinvites.entries = [k \in DOMAIN s.signinvites.entries |->
            [s.signinvites.entries[k] EXCEPT !.exists = Undefined]]]

\* the seal with every transactionStatus erased
WithoutStatus(s) ==
    [s EXCEPT
        !.signatures.entries = [k \in DOMAIN s.signatures.entries |->
            [s.signatures.entries[k] EXCEPT !.transactionStatus = Undefined]],
        !.signinvites.entries = [k \in DOMAIN s.signinvites.entries |->
            [s.signinvites.entries[k] EXCEPT !.transactionStatus = Undefined]]]

\* a lookup of the entry's transaction that found it is in the log
LookedUpAndFound(api, t) ==
    \E i \in DOMAIN lookups :
        lookups[i].api = api /\ lookups[i].transactionId = t /\ lookups[i].found

----------------------------------------------------------------------------
\* C9: whenever the Bitcoin explorer has answered a transaction request with HTTP 429,
\* the call has ended by raising the rate-limit error and has returned no verdict; the
\* error raised after a not-found answer is a different one.
C9_RateLimitedRaised ==
    \A i \in DOMAIN lookups :
        /\ (lookups[i].api = BITCOIN /\ lookups[i].status = 429)
              => /\ pc = "done"
                 /\ error = TooManyRequests
                 /\ result = None
                 /\ validationStatus = None
        /\ (lookups[i].api = BITCOIN /\ lookups[i].status = 404)
              => error # TooManyRequests

C9_Witness ==
    /\ pc = "done"
    /\ Len(lookups) = 2
    /\ lookups[1].found
    /\ lookups[2].status = 429
    /\ error = TooManyRequests

----------------------------------------------------------------------------
\* the lookup was made for an anchor of the seal
C10_AnchorLookup(l) ==
    l.transactionId.d \div 10 \in {AnchorSection, BitcoinSection}

\* C10: when a lookup for an anchor has reported that the transaction does not exist (the
\* Ethereum client returned no transaction, the Bitcoin explorer answered 404), validateSeal
\* returns FAILED; the only errors raised are the rate-limit error, the missing-commitment
\* error and the unsupported-protocol error.
C10_AbsenceFoldedIntoVerdict ==
    (/\ Validating /\ pc = "done"
     /\ \E i \in DOMAIN lookups :
           /\ C10_AnchorLookup(lookups[i])
           /\ ~lookups[i].found
           /\ lookups[i].api = ETHEREUM \/ lookups[i].status = 404)
        => /\ error \in {NoError, TooManyRequests, MerkleRootUndefined, UnsupportedProtocol}
           /\ error = NoError => validationStatus = FAILED

----------------------------------------------------------------------------
\* the seal's anchors hold a protocol key that is neither ETHEREUM nor BITCOIN
HasUnknownProtocol ==
    \E p \in DOMAIN given.anchors : given.anchors[p].protocol \notin {ETHEREUM, BITCOIN}

\* C11: when the seal's anchors hold a protocol key other than ETHEREUM and BITCOIN,
\* validateSeal ends with the unsupported-protocol error and returns no verdict, whatever
\* the other keys are, wherever they stand and whatever their entries are.
C11_UnknownProtocolRaises ==
    (op = "validateSeal" /\ pc = "done" /\ HasUnknownProtocol)
        => error = UnsupportedProtocol /\ validationStatus = None

\* what does hold: no verdict is returned
C11_NoVerdict ==
    (Validating /\ pc = "done" /\ HasUnknownProtocol)
        => error # NoError /\ validationStatus = None /\ result = None

----------------------------------------------------------------------------
\* the set is absent, empty, or holds entries under other protocol keys only
NoEthereumEntry(set) ==
    \A k \in DOMAIN set.entries : set.entries[k].protocol # ETHEREUM

\* a lookup was made for an entry of that section of the seal
LookupIn(section) ==
    \E i \in DOMAIN lookups : lookups[i].transactionId.d \div 10 = section

\* validateSeal is past validateSignatures / past validateSignInvites
PastSignatures ==
    Validating /\ (pc \in {"validateSignInvites", "returnValidateSeal"} \/ Returned)

PastSignInvites ==
    Validating /\ (pc = "returnValidateSeal" \/ Returned)

AnchorStatus == IF validAnchors THEN CONFIRMED ELSE FAILED

\* C12: when the seal's signatures (or sign-invites) are absent, empty, or hold entries
\* under non-Ethereum keys only, that reconciler's result is CONFIRMED, it makes no lookup
\* for them and raises nothing, and the verdict is the one the anchors and the other set
\* give.
C12_NothingToReconcile ==
    /\ (Validating /\ NoEthereumEntry(given.signatures)) =>
          /\ ~LookupIn(SignatureSection)
          /\ PastSignatures => validSignatures = CONFIRMED /\ error = NoError
          /\ Returned => validationStatus = Worst({AnchorStatus, validSignInvites})
    /\ (Validating /\ NoEthereumEntry(given.signinvites)) =>
          /\ ~LookupIn(InviteSection)
          /\ PastSignInvites => validSignInvites = CONFIRMED /\ error = NoError
          /\ Returned => validationStatus = Worst({AnchorStatus, validSignatures})

\* signatures under the BITCOIN key only, anchors valid, a sign-invite pending
C12_Witness ==
    /\ Returned
    /\ given.signatures.present /\ Len(given.signatures.entries) = 1
    /\ given.signatures.entries[1].protocol = BITCOIN
    /\ validSignatures = CONFIRMED
    /\ validSignInvites = PENDING
    /\ validationStatus = PENDING

----------------------------------------------------------------------------
\* the two strings have the same prefix and digits, and differ at most in letter case
EqualUpToCase(a, b) == a.pfx = b.pfx /\ a.d = b.d

\* the payload of a found transaction is the stored value up to letter case, but not in it
PayloadDiffersInCase(tx, stored) ==
    tx.found /\ EqualUpToCase(tx.data, addHexPrefix(stored)) /\ tx.data # addHexPrefix(stored)

----------------------------------------------------------------------------
\* validateAnchors has returned to validateSeal
PastAnchors ==
    Validating /\ (pc \in {"validateSignatures", "validateSignInvites", "returnValidateSeal"}
                     \/ Returned)

\* a lookup of that transaction is in the log
LookedUp(api, t) ==
    \E i \in DOMAIN lookups : lookups[i].api = api /\ lookups[i].transactionId = t

\* C14: anchor validation checks every entry and never stops early: once it has returned,
\* for every protocol of the seal and every network entry under it (other than an entry of
\* the retired network, which is skipped by itself), the transaction lookup has been made
\* and, when the transaction was found, `exists` has been determined, whatever the entries
\* and protocols before it were.
C14_EveryEntryChecked ==
    PastAnchors =>
        \A p \in DOMAIN seal.anchors : \A k \in DOMAIN seal.anchors[p].entries :
            LET anchor == seal.anchors[p].entries[k] IN
            CASE seal.anchors[p].protocol = ETHEREUM /\ anchor.nodeUrl # "mintnet" ->
                    /\ LookedUp(ETHEREUM, addHexPrefix(anchor.transactionId))
                    /\ TxOf(anchor).found => anchor.exists # Undefined
              [] seal.anchors[p].protocol = BITCOIN ->
                    /\ LookedUp(BITCOIN, anchor.transactionId)
                    /\ anchor.exists # Undefined
              [] OTHER -> TRUE

----------------------------------------------------------------------------
\* a lookup for a later entry of that section than entry k is in the log
LaterLookup(section, k) ==
    \E i \in DOMAIN lookups :
        /\ lookups[i].transactionId.d \div 10 = section
        /\ lookups[i].transactionId.d > 10 * section + k

\* the entry's transaction was looked up and found, and its payload is not the stored value
FoundMismatch(entry, stored) ==
    /\ entry.protocol = ETHEREUM
    /\ LookedUpAndFound(ETHEREUM, addHexPrefix(entry.transactionId))
    /\ TxOf(entry).data # addHexPrefix(stored)

\* C15: in validateSignatures and validateSignInvites, once an entry's transaction is found
\* with a payload that is not the stored signature (merkle root), the reconciler returns
\* FAILED at once: no lookup is made for a later entry, and a PENDING got from an earlier
\* entry does not stand.
C15_MismatchEndsReconciler ==
    /\ \A k \in DOMAIN given.signatures.entries :
          (Validating /\ FoundMismatch(given.signatures.entries[k],
                                       given.signatures.entries[k].signature)) =>
              /\ ~LaterLookup(SignatureSection, k)
              /\ pc # "validateSignatures"
              /\ validSignatures = FAILED
    /\ \A k \in DOMAIN given.signinvites.entries :
          (Validating /\ FoundMismatch(given.signinvites.entries[k],
                                       given.signinvites.entries[k].merkleRoot)) =>
              /\ ~LaterLookup(InviteSection, k)
              /\ pc # "validateSignInvites"
              /\ validSignInvites = FAILED

\* a pending signature, then a mismatching one: FAILED; a mismatching one with an entry
\* after it: one lookup
C15_Witness ==
    /\ Returned
    /\ Len(given.signatures.entries) = 2
    /\ given.signatures.entries[1].transactionStatus = PENDING
    /\ ~TxOf(given.signatures.entries[1]).found
    /\ FoundMismatch(given.signatures.entries[2], given.signatures.entries[2].signature)
    /\ validSignatures = FAILED /\ validationStatus = FAILED

----------------------------------------------------------------------------
\* the places of the outputs that carry a data payload
PayloadOutputs(outputs) == {i \in DOMAIN outputs : outputs[i].hasData}

\* the last of them
LastPayloadOutput(outputs) ==
    outputs[CHOOSE i \in PayloadOutputs(outputs) : \A j \in PayloadOutputs(outputs) : j <= i]

----------------------------------------------------------------------------
\* the hex string without its 0x prefix
StripHexPrefix(s) == [s EXCEPT !.pfx = ""]

\* the two hex strings are the same value, with or without the prefix
SameHex(a, b) == StripHexPrefix(a) = StripHexPrefix(b)

\* the payload the anchor's transaction carries
AnchorPayload(protocol, anchor) ==
    IF protocol = ETHEREUM THEN TxOf(anchor).data
    ELSE LastPayloadOutput(explorer[anchor.transactionId].outputs).data_hex

\* C17: the prefix normalisation is applied before every comparison: whether a stored
\* merkleRoot or signature is written with or without the 0x prefix makes no difference
\* to the result of the payload comparison, for Ethereum anchors, Bitcoin anchors,
\* signatures and sign-invites.
C17_PrefixMakesNoDifference ==
    /\ \A p \in DOMAIN seal.anchors : \A k \in DOMAIN seal.anchors[p].entries :
          LET anchor == seal.anchors[p].entries[k] IN
          (Validating /\ anchor.exists # Undefined) =>
              (anchor.exists = "true"
                  <=> SameHex(AnchorPayload(seal.anchors[p].protocol, anchor), anchor.merkleRoot))
    /\ \A k \in DOMAIN seal.signinvites.entries :
          LET signInvite == seal.signinvites.entries[k] IN
          (Validating /\ signInvite.exists # Undefined) =>
              (signInvite.exists = "true" <=> SameHex(TxOf(signInvite).data, signInvite.merkleRoot))
    /\ (PastSignatures /\ Len(given.signatures.entries) = 1
          /\ given.signatures.entries[1].protocol = ETHEREUM
          /\ TxOf(given.signatures.entries[1]).found) =>
              (validSignatures # FAILED
                  <=> SameHex(TxOf(given.signatures.entries[1]).data,
                              given.signatures.entries[1].signature))

----------------------------------------------------------------------------
\* C18: with the chains as they stand, validateSeal on the seal updateSeal has returned
\* gives what validateSeal gives on the seal as it was before (the same status, or the
\* same error), and updateSeal applied to that seal again leaves its cached statuses as
\* they are.
C18_CachingKeepsVerdict ==
    /\ AsAlone
    /\ (op = "updateSeal" /\ pc = "done") =>
          /\ validateSealOf(seal) = validateSealOf(given)
          /\ updateSealOf(seal) = seal

\* updateSeal has cached a CONFIRMED, another entry is pending: PENDING before and after
C18_Witness ==
    /\ op = "updateSeal" /\ pc = "done"
    /\ seal # given
    /\ validateSealOf(given).status = PENDING
    /\ validateSealOf(seal).status = PENDING

----------------------------------------------------------------------------
(* Calls that run at the same time on the same seal.  A call gives up the    *)
(* thread at each awaited lookup; between two of its steps other calls of    *)
(* validateSeal and updateSeal make the writes their code makes to the seal. *)

\* a call is between its first and its last step
Running == pc \notin {"idle", "done"}

\* another validateSeal writes anchor.exists
writeAnchorExists ==
    /\ Running
    /\ \E p \in DOMAIN seal.anchors : \E k \in DOMAIN seal.anchors[p].entries :
          LET anchor == seal.anchors[p].entries[k]
              response == explorer[anchor.transactionId]
          IN
          CASE seal.anchors[p].protocol = ETHEREUM ->
                  /\ anchor.nodeUrl # "mintnet"
                  /\ TxOf(anchor).found
                  /\ seal' = WriteAnchorExists(seal, p, k, EthereumExists(TxOf(anchor), anchor))
            [] seal.anchors[p].protocol = BITCOIN ->
                  /\ BitcoinTryError(response) = NoError
                  /\ seal' = WriteAnchorExists(seal, p, k, BitcoinExists(response, anchor))
            [] OTHER -> FALSE
    /\ UNCHANGED <<given, chain, args, anchorLocals, idx, validSignatures, validSignInvites,
                   outcome, pc, lookups>>

\* another validateSeal writes signInvite.exists
writeSignInviteExists ==
    /\ Running
    /\ \E k \in DOMAIN seal.signinvites.entries :
          LET signInvite == seal.signinvites.entries[k] IN
          /\ Reconciled(signInvite.protocol)
          /\ TxOf(signInvite).found
          /\ seal' = WriteInviteExists(seal, k, InviteExists(TxOf(signInvite), signInvite))
    /\ UNCHANGED <<given, chain, args, anchorLocals, idx, validSignatures, validSignInvites,
                   outcome, pc, lookups>>

\* another updateSeal writes a signature's transactionStatus
writeSignatureStatus ==
    /\ Running
    /\ \E k \in DOMAIN seal.signatures.entries :
          LET signature == seal.signatures.entries[k] IN
          /\ Reconciled(signature.protocol)
          /\ SignatureResolved(TxOf(signature), signature)
          /\ seal' = WriteSignatureStatus(seal, k)
    /\ UNCHANGED <<given, chain, args, anchorLocals, idx, validSignatures, validSignInvites,
                   outcome, pc, lookups>>

\* another updateSeal writes a sign-invite's transactionStatus
writeSignInviteStatus ==
    /\ Running
    /\ \E k \in DOMAIN seal.signinvites.entries :
          LET signInvite == seal.signinvites.entries[k] IN
          /\ Reconciled(signInvite.protocol)
          /\ SignInviteResolved(TxOf(signInvite), signInvite)
          /\ seal' = WriteInviteStatus(seal, k)
    /\ UNCHANGED <<given, chain, args, anchorLocals, idx, validSignatures, validSignInvites,
                   outcome, pc, lookups>>

NextConcurrent ==
    \/ validateSeal
    \/ validateAnchors
    \/ validateEthereumAnchor
    \/ validateBitcoinAnchor
    \/ validateSignatures
    \/ validateSignInvites
    \/ returnValidateSeal
    \/ writeAnchorExists
    \/ writeSignInviteExists
    \/ writeSignatureStatus
    \/ writeSignInviteStatus

SpecConcurrent == Init /\ [][NextConcurrent]_vars

\* a cached status of the seal is not the one the call was given
StatusWritten == WithoutExists(seal) # WithoutExists(given)

\* C19: a validateSeal call that runs while other validateSeal and updateSeal calls work on
\* the same seal returns the status (or raises the error) it returns when it runs alone,
\* however the calls' steps are interleaved.
C19_ConcurrentCallsAsAlone ==
    (op = "validateSeal" /\ pc = "done") =>
        /\ [error |-> error, status |-> validationStatus] = validateSealOf(given)
        /\ error = NoError => result = validateSealOf(given).status

\* an updateSeal has cached a CONFIRMED while validateSeal ran; another entry is pending
C19_Witness ==
    /\ Returned /\ op = "validateSeal"
    /\ StatusWritten
    /\ validationStatus = PENDING

====
